---- MODULE Spec2Model ----
(***************************************************************************)
(* State-machine model of src/index.tsx ("The Grand Plan" page script):    *)
(* the section expansion handler, the icon generator, the grand-vision     *)
(* generator and the chat widget.  Every await of the source is a point    *)
(* where the handler is suspended; the steps between two awaits are one    *)
(* atomic action (the browser's event loop runs them to completion).       *)
(*                                                                         *)
(* Text is a sequence of tokens (strings).  A streamed fragment            *)
(* (chunk.text) is a sequence of tokens; a fixed sentence of the source is *)
(* one token holding the source's literal.                                 *)
(***************************************************************************)
EXTENDS Naturals, Sequences, FiniteSets, TLC

\* ------------------------------------------------------------------ bounds
NumPlaceholders == 3
MaxCalls == 2
MaxFrags == 2
MaxSubmits == 2
MaxParts == 2
MaxEvents == 7

\* The page's .plan-section elements and its .icon-placeholder elements.
Sections == {"s1", "s2"}
Placeholders == 1..NumPlaceholders

\* ------------------------------------------------- the generative service
\* A streamed fragment: the text of one chunk.
Frags == {<<"a">>, <<"b", "c">>}

RECURSIVE Concat(_)
Concat(fs) == IF fs = <<>> THEN <<>> ELSE Head(fs) \o Concat(Tail(fs))

\* ------------------------------------------------------- handleExploreClick
SealLabel == "Seal Frontier"
ExploreLabel == "Explore Frontier"
InitText == "Initializing deep dive..."
ErrorText == "Error accessing the data stream. Connection disrupted."

EmptyDetails == [kind |-> "empty", text |-> <<>>, streaming |-> FALSE]
InitDetails == [kind |-> "message", text |-> <<InitText>>, streaming |-> FALSE]
ErrorDetails == [kind |-> "error", text |-> <<ErrorText>>, streaming |-> FALSE]
ParagraphDetails(text, streaming) ==
    [kind |-> "p", text |-> text, streaming |-> streaming]

VARIABLES
    expanded,          \* section.classList contains 'expanded'
    ariaExpanded,      \* button's aria-expanded attribute ("true"/"false"/"")
    buttonText,        \* button.textContent
    buttonDisabled,    \* button.disabled
    datasetContent,    \* section.dataset.content
    detailsContainer,  \* content of the section's .details-container
    explorePc,         \* the section's latest generation call
    exploreFrags,      \* the fragments that call's stream has delivered, in order
    exploreCalls,      \* generateContentStream calls issued for the section
    exploreInFlight    \* calls issued and not yet ended

exploreVars == <<expanded, ariaExpanded, buttonText, buttonDisabled,
                 datasetContent, detailsContainer, explorePc, exploreFrags,
                  exploreCalls, exploreInFlight>>

BoolString_AlwaysTrue(b) == "true"

BoolString(b) == IF b THEN "true" ELSE "false"

IsLoaded_Never(content) == FALSE

IsLoaded(content) == content = "loaded"

LoadingDisabled_Not == FALSE

LoadingDisabled == TRUE

AppendChunk_Overwrite(text, chunk) == chunk

AppendChunk(text, chunk) == text \o chunk

HandleExploreClick_DisablesAll(s) ==
    /\ ~buttonDisabled[s]
    /\ LET isExpanded == ~expanded[s]
           load == isExpanded /\ ~IsLoaded(datasetContent[s])
       IN /\ load => exploreCalls[s] < MaxCalls
          /\ expanded' = [expanded EXCEPT ![s] = isExpanded]
          /\ ariaExpanded' = [ariaExpanded EXCEPT ![s] = BoolString(isExpanded)]
          /\ buttonText' = [buttonText EXCEPT
                               ![s] = IF isExpanded THEN SealLabel ELSE ExploreLabel]
          /\ IF load
             THEN /\ detailsContainer' = [detailsContainer EXCEPT ![s] = InitDetails]
                  /\ buttonDisabled' = [u \in Sections |-> LoadingDisabled]
                  /\ explorePc' = [explorePc EXCEPT ![s] = "handshake"]
                  /\ exploreFrags' = [exploreFrags EXCEPT ![s] = <<>>]
                  /\ exploreCalls' = [exploreCalls EXCEPT ![s] = @ + 1]
                  /\ exploreInFlight' = [exploreInFlight EXCEPT ![s] = @ + 1]
             ELSE UNCHANGED <<detailsContainer, buttonDisabled, explorePc,
                              exploreFrags, exploreCalls, exploreInFlight>>
          /\ UNCHANGED datasetContent

HandleExploreClick_ClearsOnCollapse(s) ==
    /\ ~buttonDisabled[s]
    /\ LET isExpanded == ~expanded[s]
           load == isExpanded /\ ~IsLoaded(datasetContent[s])
       IN /\ load => exploreCalls[s] < MaxCalls
          /\ expanded' = [expanded EXCEPT ![s] = isExpanded]
          /\ ariaExpanded' = [ariaExpanded EXCEPT ![s] = BoolString(isExpanded)]
          /\ buttonText' = [buttonText EXCEPT
                               ![s] = IF isExpanded THEN SealLabel ELSE ExploreLabel]
          /\ IF load
             THEN /\ detailsContainer' = [detailsContainer EXCEPT ![s] = InitDetails]
                  /\ buttonDisabled' = [buttonDisabled EXCEPT ![s] = LoadingDisabled]
                  /\ explorePc' = [explorePc EXCEPT ![s] = "handshake"]
                  /\ exploreFrags' = [exploreFrags EXCEPT ![s] = <<>>]
                  /\ exploreCalls' = [exploreCalls EXCEPT ![s] = @ + 1]
                  /\ exploreInFlight' = [exploreInFlight EXCEPT ![s] = @ + 1]
                  /\ UNCHANGED datasetContent
             ELSE /\ detailsContainer' =
                        IF isExpanded THEN detailsContainer
                        ELSE [detailsContainer EXCEPT ![s] = EmptyDetails]
                  /\ datasetContent' =
                        IF isExpanded THEN datasetContent
                        ELSE [datasetContent EXCEPT ![s] = ""]
                  /\ UNCHANGED <<buttonDisabled, explorePc, exploreFrags,
                                 exploreCalls, exploreInFlight>>

\* A click on the section's button.  A disabled button dispatches no click.
HandleExploreClick(s) ==
    /\ ~buttonDisabled[s]
    /\ LET isExpanded == ~expanded[s]
           load == isExpanded /\ ~IsLoaded(datasetContent[s])
       IN /\ load => exploreCalls[s] < MaxCalls
          /\ expanded' = [expanded EXCEPT ![s] = isExpanded]
          /\ ariaExpanded' = [ariaExpanded EXCEPT ![s] = BoolString(isExpanded)]
          /\ buttonText' = [buttonText EXCEPT
                               ![s] = IF isExpanded THEN SealLabel ELSE ExploreLabel]
          /\ IF load
             THEN /\ detailsContainer' = [detailsContainer EXCEPT ![s] = InitDetails]
                  /\ buttonDisabled' = [buttonDisabled EXCEPT ![s] = LoadingDisabled]
                  /\ explorePc' = [explorePc EXCEPT ![s] = "handshake"]
                  /\ exploreFrags' = [exploreFrags EXCEPT ![s] = <<>>]
                  /\ exploreCalls' = [exploreCalls EXCEPT ![s] = @ + 1]
                  /\ exploreInFlight' = [exploreInFlight EXCEPT ![s] = @ + 1]
             ELSE UNCHANGED <<detailsContainer, buttonDisabled, explorePc,
                              exploreFrags, exploreCalls, exploreInFlight>>
          /\ UNCHANGED datasetContent

\* await generateContentStream(...) resolves with a stream.
ExploreHandshakeOk(s) ==
    /\ explorePc[s] = "handshake"
    /\ explorePc' = [explorePc EXCEPT ![s] = "streaming"]
    /\ detailsContainer' = [detailsContainer EXCEPT
                               ![s] = ParagraphDetails(<<>>, TRUE)]
    /\ UNCHANGED <<expanded, ariaExpanded, buttonText, buttonDisabled,
                   datasetContent, exploreFrags, exploreCalls, exploreInFlight>>

\* One iteration of the for-await loop: the stream delivers a fragment.
ExploreChunk(s) ==
    /\ explorePc[s] = "streaming"
    /\ Len(exploreFrags[s]) < MaxFrags
    /\ \E chunk \in Frags :
          /\ exploreFrags' = [exploreFrags EXCEPT ![s] = Append(@, chunk)]
          /\ detailsContainer' = [detailsContainer EXCEPT
                                     ![s].text = AppendChunk(@, chunk)]
    /\ UNCHANGED <<expanded, ariaExpanded, buttonText, buttonDisabled,
                   datasetContent, explorePc, exploreCalls, exploreInFlight>>

ExploreStreamEnd_StaysDisabled(s) ==
    /\ explorePc[s] = "streaming"
    /\ detailsContainer' = [detailsContainer EXCEPT ![s].streaming = FALSE]
    /\ datasetContent' = [datasetContent EXCEPT ![s] = "loaded"]
    /\ explorePc' = [explorePc EXCEPT ![s] = "done"]
    /\ exploreInFlight' = [exploreInFlight EXCEPT ![s] = @ - 1]
    /\ UNCHANGED <<expanded, ariaExpanded, buttonText, buttonDisabled,
                   exploreFrags, exploreCalls>>

\* The stream completes: the code after the loop, then the finally clause.
ExploreStreamEnd(s) ==
    /\ explorePc[s] = "streaming"
    /\ detailsContainer' = [detailsContainer EXCEPT ![s].streaming = FALSE]
    /\ datasetContent' = [datasetContent EXCEPT ![s] = "loaded"]
    /\ buttonDisabled' = [buttonDisabled EXCEPT ![s] = FALSE]
    /\ explorePc' = [explorePc EXCEPT ![s] = "done"]
    /\ exploreInFlight' = [exploreInFlight EXCEPT ![s] = @ - 1]
    /\ UNCHANGED <<expanded, ariaExpanded, buttonText, exploreFrags,
                   exploreCalls>>

ExploreCatch_MarksLoaded(s) ==
    /\ detailsContainer' = [detailsContainer EXCEPT ![s] = ErrorDetails]
    /\ datasetContent' = [datasetContent EXCEPT ![s] = "loaded"]
    /\ buttonDisabled' = [buttonDisabled EXCEPT ![s] = FALSE]
    /\ explorePc' = [explorePc EXCEPT ![s] = "failed"]
    /\ exploreInFlight' = [exploreInFlight EXCEPT ![s] = @ - 1]
    /\ UNCHANGED <<expanded, ariaExpanded, buttonText, exploreFrags,
                   exploreCalls>>

ExploreCatch_KeepsPartial(s) ==
    /\ detailsContainer' = [detailsContainer EXCEPT
          ![s] = [kind |-> "error", text |-> @.text \o <<ErrorText>>,
                  streaming |-> FALSE]]
    /\ buttonDisabled' = [buttonDisabled EXCEPT ![s] = FALSE]
    /\ explorePc' = [explorePc EXCEPT ![s] = "failed"]
    /\ exploreInFlight' = [exploreInFlight EXCEPT ![s] = @ - 1]
    /\ UNCHANGED <<expanded, ariaExpanded, buttonText, datasetContent,
                   exploreFrags, exploreCalls>>

\* The catch clause, then the finally clause.
ExploreCatch(s) ==
    /\ detailsContainer' = [detailsContainer EXCEPT ![s] = ErrorDetails]
    /\ buttonDisabled' = [buttonDisabled EXCEPT ![s] = FALSE]
    /\ explorePc' = [explorePc EXCEPT ![s] = "failed"]
    /\ exploreInFlight' = [exploreInFlight EXCEPT ![s] = @ - 1]
    /\ UNCHANGED <<expanded, ariaExpanded, buttonText, datasetContent,
                   exploreFrags, exploreCalls>>

\* await generateContentStream(...) rejects.
ExploreHandshakeFail(s) ==
    /\ explorePc[s] = "handshake"
    /\ ExploreCatch(s)

\* The iteration throws.
ExploreStreamFail(s) ==
    /\ explorePc[s] = "streaming"
    /\ ExploreCatch(s)

ExploreInit ==
    /\ expanded = [s \in Sections |-> FALSE]
    /\ ariaExpanded = [s \in Sections |-> "false"]
    /\ buttonText = [s \in Sections |-> ExploreLabel]
    /\ buttonDisabled = [s \in Sections |-> FALSE]
    /\ datasetContent = [s \in Sections |-> ""]
    /\ detailsContainer = [s \in Sections |-> EmptyDetails]
    /\ explorePc = [s \in Sections |-> "idle"]
    /\ exploreFrags = [s \in Sections |-> <<>>]
    /\ exploreCalls = [s \in Sections |-> 0]
    /\ exploreInFlight = [s \in Sections |-> 0]

\* ------------------------------------------------------------ generateIcons
\* The sparkles glyph (U+2728) the catch clause writes.
FallbackGlyph == "U+2728"
DefaultPhase == "Future technology"
DataUrlPrefix == "data:image/png;base64,"

\* The data-phase attribute of placeholder k ("" when the attribute is absent).
DatasetPhase(k) == IF k % 2 = 0 THEN "" ELSE "Phase"

PhaseName(k) == IF DatasetPhase(k) # "" THEN DatasetPhase(k) ELSE DefaultPhase

\* A content part of an image response: inlineData present or not, and its
\* base64 payload.
TextPart == [inline |-> FALSE, data |-> ""]
Parts == {TextPart, [inline |-> TRUE, data |-> "QQ=="], [inline |-> TRUE, data |-> "Qg=="]}

PartSeqs == UNION {[1..n -> Parts] : n \in 0..MaxParts}

\* An image response: whether candidates[0] exists and, when it does, its
\* content parts.
IconResponses ==
    {[candidate |-> FALSE, parts |-> <<>>]}
        \cup [candidate : {TRUE}, parts : PartSeqs]

PendingIcon == [content |-> "pending", src |-> "", alt |-> "", styled |-> FALSE]
ImageIcon(data, phaseName) ==
    [content |-> "img", src |-> DataUrlPrefix \o data, alt |-> phaseName,
     styled |-> FALSE]
GlyphIcon == [content |-> FallbackGlyph, src |-> "", alt |-> "", styled |-> TRUE]

VARIABLES
    placeholder,    \* content of each .icon-placeholder
    iconIdx,        \* the placeholder the for-of loop is at
    iconRequests,   \* generateContent calls issued per placeholder
    iconOutcome,    \* how each placeholder's request ended
    iconInFlight    \* image requests issued and not yet ended

iconVars == <<placeholder, iconIdx, iconRequests, iconOutcome, iconInFlight>>

\* Index of the first part carrying inlineData, 0 when there is none.
FirstInline(parts) ==
    IF \E i \in 1..Len(parts) : parts[i].inline
    THEN CHOOSE i \in 1..Len(parts) :
            /\ parts[i].inline
            /\ \A j \in 1..(i - 1) : ~parts[j].inline
    ELSE 0

\* The loop over response.candidates[0].content.parts.
ApplyParts(old, parts, phaseName) ==
    IF FirstInline(parts) = 0
    THEN old
    ELSE ImageIcon(parts[FirstInline(parts)].data, phaseName)

AfterCatch_Retries(k) == k

AfterCatch_Stops(k) == NumPlaceholders + 1

\* The for-of loop goes on to the next placeholder after the catch clause.
AfterCatch(k) == k + 1

IconIssue_AllRemaining(k) ==
    /\ iconIdx' = k
    /\ iconRequests' = [j \in Placeholders |->
                           IF j >= k THEN iconRequests[j] + 1 ELSE iconRequests[j]]
    /\ iconInFlight' = Cardinality({j \in Placeholders : j >= k})

\* The loop reaches placeholder k: its request is issued (if there is one).
IconIssue(k) ==
    /\ iconIdx' = k
    /\ iconRequests' = [j \in Placeholders |->
                           IF j = k THEN iconRequests[j] + 1 ELSE iconRequests[j]]
    /\ iconInFlight' = IF k \in Placeholders THEN 1 ELSE 0

\* await generateContent(...) resolves.
IconResponse ==
    /\ iconIdx \in Placeholders
    /\ \E r \in IconResponses :
          IF r.candidate
          THEN /\ placeholder' = [placeholder EXCEPT
                      ![iconIdx] = ApplyParts(@, r.parts, PhaseName(iconIdx))]
               /\ iconOutcome' = [iconOutcome EXCEPT
                      ![iconIdx] = IF FirstInline(r.parts) = 0
                                   THEN "noimage" ELSE "image"]
               /\ IconIssue(iconIdx + 1)
          ELSE \* candidates[0] is undefined: a TypeError, caught
               /\ placeholder' = [placeholder EXCEPT ![iconIdx] = GlyphIcon]
               /\ iconOutcome' = [iconOutcome EXCEPT ![iconIdx] = "malformed"]
               /\ IconIssue(AfterCatch(iconIdx))

\* await generateContent(...) rejects: the catch clause.
IconRequestFail ==
    /\ iconIdx \in Placeholders
    /\ placeholder' = [placeholder EXCEPT ![iconIdx] = GlyphIcon]
    /\ iconOutcome' = [iconOutcome EXCEPT ![iconIdx] = "failed"]
    /\ IconIssue(AfterCatch(iconIdx))

\* generateIcons() as initialize() leaves it: suspended at the first request.
IconInit ==
    /\ placeholder = [k \in Placeholders |-> PendingIcon]
    /\ iconIdx = 1
    /\ iconRequests = [k \in Placeholders |-> IF k = 1 THEN 1 ELSE 0]
    /\ iconOutcome = [k \in Placeholders |-> "none"]
    /\ iconInFlight = IF 1 \in Placeholders THEN 1 ELSE 0

\* ------------------------------------------------------ generateGrandVision
VisionFallback ==
    "The vision is momentarily obscured. Please reconnect to the collective consciousness."
VisionPlaceholder == "(vision placeholder)"

VARIABLES
    visionText,         \* visionText.textContent
    visionPlaceholderClass,  \* visionText has class 'placeholder-text'
    visionStreaming,    \* visionText has class 'streaming'
    btnDisabled,        \* btn.disabled
    btnDisplay,         \* btn.style.display
    visionPc,           \* the vision generation call
    visionFrags,        \* the fragments its stream has delivered, in order
    visionCalls         \* generateContentStream calls issued by the handler

visionVars == <<visionText, visionPlaceholderClass, visionStreaming,
                btnDisabled, btnDisplay, visionPc, visionFrags, visionCalls>>

\* A click on the vision button.  A disabled or undisplayed button dispatches
\* no click.
GenerateGrandVision ==
    /\ ~btnDisabled
    /\ btnDisplay # "none"
    /\ visionCalls < MaxCalls
    /\ btnDisabled' = TRUE
    /\ visionPlaceholderClass' = FALSE
    /\ visionText' = <<>>
    /\ visionStreaming' = TRUE
    /\ visionPc' = "handshake"
    /\ visionFrags' = <<>>
    /\ visionCalls' = visionCalls + 1
    /\ UNCHANGED btnDisplay

VisionFinally_Reenables ==
    /\ visionStreaming' = FALSE
    /\ btnDisabled' = FALSE
    /\ UNCHANGED btnDisplay

\* The finally clause.
VisionFinally ==
    /\ visionStreaming' = FALSE
    /\ btnDisplay' = "none"
    /\ UNCHANGED btnDisabled

VisionHandshakeOk ==
    /\ visionPc = "handshake"
    /\ visionPc' = "streaming"
    /\ UNCHANGED <<visionText, visionPlaceholderClass, visionStreaming,
                   btnDisabled, btnDisplay, visionFrags, visionCalls>>

VisionChunk ==
    /\ visionPc = "streaming"
    /\ Len(visionFrags) < MaxFrags
    /\ \E chunk \in Frags :
          /\ visionFrags' = Append(visionFrags, chunk)
          /\ visionText' = AppendChunk(visionText, chunk)
    /\ UNCHANGED <<visionPlaceholderClass, visionStreaming, btnDisabled,
                   btnDisplay, visionPc, visionCalls>>

VisionStreamEnd ==
    /\ visionPc = "streaming"
    /\ visionPc' = "done"
    /\ VisionFinally
    /\ UNCHANGED <<visionText, visionPlaceholderClass, visionFrags, visionCalls>>

VisionCatch_GenericError ==
    /\ visionText' = <<ErrorText>>
    /\ visionPc' = "failed"
    /\ VisionFinally
    /\ UNCHANGED <<visionPlaceholderClass, visionFrags, visionCalls>>

\* The catch clause, then the finally clause.
VisionCatch ==
    /\ visionText' = <<VisionFallback>>
    /\ visionPc' = "failed"
    /\ VisionFinally
    /\ UNCHANGED <<visionPlaceholderClass, visionFrags, visionCalls>>

VisionHandshakeFail ==
    /\ visionPc = "handshake"
    /\ VisionCatch

VisionStreamFail ==
    /\ visionPc = "streaming"
    /\ VisionCatch

VisionInit ==
    /\ visionText = <<VisionPlaceholder>>
    /\ visionPlaceholderClass = TRUE
    /\ visionStreaming = FALSE
    /\ btnDisabled = FALSE
    /\ btnDisplay = ""
    /\ visionPc = "idle"
    /\ visionFrags = <<>>
    /\ visionCalls = 0

\* ------------------------------------------------------------------ initChat
Apology == "Apologies, the data link is unstable. Let us try once more."
ArrowUp == "U+2191"
ArrowDown == "U+2193"
NoChat == 0

\* Characters String.prototype.trim removes at both ends: the ECMAScript
\* WhiteSpace characters (tab, U+000B, form feed, space, U+00A0, U+FEFF and
\* the Unicode space separators) and LineTerminator characters (line feed,
\* carriage return, U+2028, U+2029). A character outside ASCII is written by
\* its code point.
WhiteSpace ==
    {"\t", "U+000B", "\f", " ", "U+00A0", "U+FEFF",
     "U+1680", "U+2000", "U+2001", "U+2002", "U+2003", "U+2004", "U+2005",
     "U+2006", "U+2007", "U+2008", "U+2009", "U+200A", "U+202F", "U+205F",
     "U+3000",
     "\n", "\r", "U+2028", "U+2029"}

\* Values the chat input can hold (input.value, a sequence of characters).
\* A single-line text control holds no line break, so none occurs here; every
\* other white space is kept as entered.
InputValues ==
    {<<"U+00A0", "\t">>, <<"h", "i">>, <<"U+FEFF", "a", " ", "b", "U+3000">>}

RECURSIVE TrimStart(_)
TrimStart(s) ==
    IF s # <<>> /\ Head(s) \in WhiteSpace THEN TrimStart(Tail(s)) ELSE s

RECURSIVE TrimEnd(_)
TrimEnd(s) ==
    IF s # <<>> /\ s[Len(s)] \in WhiteSpace
    THEN TrimEnd(SubSeq(s, 1, Len(s) - 1))
    ELSE s

Trim_Identity(s) == s

Trim(s) == TrimEnd(TrimStart(s))

NeedsSession_Always(c) == TRUE

\* if (!chat)
NeedsSession(c) == c = NoChat

UserMessage(text) == [role |-> "user", text |-> text, streaming |-> FALSE]
AssistantPlaceholder == [role |-> "assistant", text |-> <<>>, streaming |-> TRUE]

VARIABLES
    chat,             \* the module-level session handle (NoChat is null)
    chatsCreated,     \* sessions ai.chats.create has returned
    inputValue,       \* input.value
    messages,         \* children of #chat-messages, in document order
    replies,          \* one record per accepted submission: its pending reply
    submitEvents,     \* submit events handled
    sendCalls,        \* sendMessageStream calls issued
    widgetCollapsed,  \* widget.classList contains 'collapsed'
    toggleText        \* toggle.textContent

chatVars == <<chat, chatsCreated, inputValue, messages, replies, submitEvents,
              sendCalls, widgetCollapsed, toggleText>>

\* The toggle's click listener.
ChatToggle ==
    /\ widgetCollapsed' = ~widgetCollapsed
    /\ toggleText' = IF widgetCollapsed' THEN ArrowUp ELSE ArrowDown
    /\ UNCHANGED <<chat, chatsCreated, inputValue, messages, replies,
                   submitEvents, sendCalls>>

\* The user edits the chat input (while a further submission is modelled).
TypeInput ==
    /\ submitEvents < MaxSubmits
    /\ \E v \in InputValues : v # inputValue /\ inputValue' = v
    /\ UNCHANGED <<chat, chatsCreated, messages, replies, submitEvents,
                   sendCalls, widgetCollapsed, toggleText>>

\* The form's submit listener, up to its first await (or to its end).
\* created: whether ai.chats.create returns a session or throws.
ChatSubmit ==
    /\ submitEvents < MaxSubmits
    /\ submitEvents' = submitEvents + 1
    /\ UNCHANGED <<widgetCollapsed, toggleText>>
    /\ LET message == Trim(inputValue)
           div == Len(messages) + 2
       IN IF message = <<>>
          THEN UNCHANGED <<chat, chatsCreated, inputValue, messages, replies,
                           sendCalls>>
          ELSE /\ inputValue' = <<>>
               /\ \E created \in BOOLEAN :
                     IF NeedsSession(chat) /\ ~created
                     THEN \* ai.chats.create throws: catch, finally
                          /\ messages' = messages \o
                                <<UserMessage(message),
                                  [AssistantPlaceholder EXCEPT
                                      !.text = <<Apology>>, !.streaming = FALSE]>>
                          /\ replies' = Append(replies,
                                [pc |-> "failed", frags |-> <<>>, div |-> div,
                                 session |-> NoChat])
                          /\ UNCHANGED <<chat, chatsCreated, sendCalls>>
                     ELSE /\ created
                          /\ IF NeedsSession(chat)
                             THEN /\ chat' = chatsCreated + 1
                                  /\ chatsCreated' = chatsCreated + 1
                             ELSE UNCHANGED <<chat, chatsCreated>>
                          /\ messages' = messages \o
                                <<UserMessage(message), AssistantPlaceholder>>
                          /\ replies' = Append(replies,
                                [pc |-> "handshake", frags |-> <<>>, div |-> div,
                                 session |-> chat'])
                          /\ sendCalls' = sendCalls + 1

\* await chat.sendMessageStream(...) resolves with a stream.
ChatHandshakeOk(i) ==
    /\ replies[i].pc = "handshake"
    /\ replies' = [replies EXCEPT ![i].pc = "streaming"]
    /\ messages' = [messages EXCEPT ![replies[i].div].text = <<>>]
    /\ UNCHANGED <<chat, chatsCreated, inputValue, submitEvents, sendCalls,
                   widgetCollapsed, toggleText>>

ChatChunk_WritesLatest(i) ==
    /\ replies[i].pc = "streaming"
    /\ Len(replies[i].frags) < MaxFrags
    /\ \E chunk \in Frags :
          /\ replies' = [replies EXCEPT ![i].frags = Append(@, chunk)]
          /\ messages' = [messages EXCEPT
                             ![Len(messages)].text = AppendChunk(@, chunk)]
    /\ UNCHANGED <<chat, chatsCreated, inputValue, submitEvents, sendCalls,
                   widgetCollapsed, toggleText>>

\* One iteration of the for-await loop: the stream delivers a fragment.
ChatChunk(i) ==
    /\ replies[i].pc = "streaming"
    /\ Len(replies[i].frags) < MaxFrags
    /\ \E chunk \in Frags :
          /\ replies' = [replies EXCEPT ![i].frags = Append(@, chunk)]
          /\ messages' = [messages EXCEPT
                             ![replies[i].div].text = AppendChunk(@, chunk)]
    /\ UNCHANGED <<chat, chatsCreated, inputValue, submitEvents, sendCalls,
                   widgetCollapsed, toggleText>>

ChatStreamEnd_KeepsStreaming(i) ==
    /\ replies[i].pc = "streaming"
    /\ replies' = [replies EXCEPT ![i].pc = "done"]
    /\ UNCHANGED <<chat, chatsCreated, inputValue, messages, submitEvents,
                   sendCalls, widgetCollapsed, toggleText>>

\* The stream completes: the finally clause.
ChatStreamEnd(i) ==
    /\ replies[i].pc = "streaming"
    /\ replies' = [replies EXCEPT ![i].pc = "done"]
    /\ messages' = [messages EXCEPT ![replies[i].div].streaming = FALSE]
    /\ UNCHANGED <<chat, chatsCreated, inputValue, submitEvents, sendCalls,
                   widgetCollapsed, toggleText>>

ChatCatch_KeepsPartial(i) ==
    /\ replies' = [replies EXCEPT ![i].pc = "failed"]
    /\ messages' = [messages EXCEPT ![replies[i].div].text = @ \o <<Apology>>,
                                    ![replies[i].div].streaming = FALSE]
    /\ UNCHANGED <<chat, chatsCreated, inputValue, submitEvents, sendCalls,
                   widgetCollapsed, toggleText>>

\* The catch clause, then the finally clause.
ChatCatch(i) ==
    /\ replies' = [replies EXCEPT ![i].pc = "failed"]
    /\ messages' = [messages EXCEPT ![replies[i].div].text = <<Apology>>,
                                    ![replies[i].div].streaming = FALSE]
    /\ UNCHANGED <<chat, chatsCreated, inputValue, submitEvents, sendCalls,
                   widgetCollapsed, toggleText>>

ChatHandshakeFail(i) ==
    /\ replies[i].pc = "handshake"
    /\ ChatCatch(i)

ChatStreamFail(i) ==
    /\ replies[i].pc = "streaming"
    /\ ChatCatch(i)

ChatInit ==
    /\ chat = NoChat
    /\ chatsCreated = 0
    /\ inputValue = <<>>
    /\ messages = <<>>
    /\ replies = <<>>
    /\ submitEvents = 0
    /\ sendCalls = 0
    /\ widgetCollapsed = FALSE
    /\ toggleText = ArrowDown

\* ------------------------------------------------------------- initialize
VARIABLE
    pageEvents   \* handler runs and continuations the page has executed,
                 \* counted by the specification of the whole page

vars == <<exploreVars, iconVars, visionVars, chatVars, pageEvents>>

Init == ExploreInit /\ IconInit /\ VisionInit /\ ChatInit /\ pageEvents = 0

ExploreStep ==
    \E s \in Sections :
        \/ HandleExploreClick(s) /\ UNCHANGED <<iconVars, visionVars, chatVars>>
        \/ ExploreHandshakeOk(s) /\ UNCHANGED <<iconVars, visionVars, chatVars>>
        \/ ExploreChunk(s) /\ UNCHANGED <<iconVars, visionVars, chatVars>>
        \/ ExploreStreamEnd(s) /\ UNCHANGED <<iconVars, visionVars, chatVars>>
        \/ ExploreHandshakeFail(s) /\ UNCHANGED <<iconVars, visionVars, chatVars>>
        \/ ExploreStreamFail(s) /\ UNCHANGED <<iconVars, visionVars, chatVars>>

IconStep ==
    \/ IconResponse /\ UNCHANGED <<exploreVars, visionVars, chatVars>>
    \/ IconRequestFail /\ UNCHANGED <<exploreVars, visionVars, chatVars>>

VisionStep ==
    \/ GenerateGrandVision /\ UNCHANGED <<exploreVars, iconVars, chatVars>>
    \/ VisionHandshakeOk /\ UNCHANGED <<exploreVars, iconVars, chatVars>>
    \/ VisionChunk /\ UNCHANGED <<exploreVars, iconVars, chatVars>>
    \/ VisionStreamEnd /\ UNCHANGED <<exploreVars, iconVars, chatVars>>
    \/ VisionHandshakeFail /\ UNCHANGED <<exploreVars, iconVars, chatVars>>
    \/ VisionStreamFail /\ UNCHANGED <<exploreVars, iconVars, chatVars>>

ChatStep ==
    \/ ChatToggle /\ UNCHANGED <<exploreVars, iconVars, visionVars>>
    \/ TypeInput /\ UNCHANGED <<exploreVars, iconVars, visionVars>>
    \/ ChatSubmit /\ UNCHANGED <<exploreVars, iconVars, visionVars>>
    \/ \E i \in 1..Len(replies) :
          ChatHandshakeOk(i) /\ UNCHANGED <<exploreVars, iconVars, visionVars>>
    \/ \E i \in 1..Len(replies) :
          ChatChunk(i) /\ UNCHANGED <<exploreVars, iconVars, visionVars>>
    \/ \E i \in 1..Len(replies) :
          ChatStreamEnd(i) /\ UNCHANGED <<exploreVars, iconVars, visionVars>>
    \/ \E i \in 1..Len(replies) :
          ChatHandshakeFail(i) /\ UNCHANGED <<exploreVars, iconVars, visionVars>>
    \/ \E i \in 1..Len(replies) :
          ChatStreamFail(i) /\ UNCHANGED <<exploreVars, iconVars, visionVars>>

\* The whole page: the four controllers run concurrently, one handler or
\* continuation at a time.
Next == ExploreStep \/ IconStep \/ VisionStep \/ ChatStep

Spec == Init /\ [][Next /\ pageEvents' = pageEvents + 1]_vars

\* One controller running, the others left as initialize() leaves them.
SpecExplore == Init /\ [][ExploreStep /\ UNCHANGED pageEvents]_vars

SpecGenerate == Init /\ [][(IconStep \/ VisionStep) /\ UNCHANGED pageEvents]_vars

SpecChat == Init /\ [][ChatStep /\ UNCHANGED pageEvents]_vars

\* The whole page for its first MaxEvents steps: every interleaving of the
\* four controllers.
PageNext ==
    \/ pageEvents < MaxEvents /\ pageEvents' = pageEvents + 1 /\ ExploreStep
    \/ pageEvents < MaxEvents /\ pageEvents' = pageEvents + 1 /\ IconStep
    \/ pageEvents < MaxEvents /\ pageEvents' = pageEvents + 1 /\ VisionStep
    \/ pageEvents < MaxEvents /\ pageEvents' = pageEvents + 1 /\ ChatStep

SpecPage == Init /\ [][PageNext]_vars

\* ------------------------------------------------------------------ claims
InFlight(s) == explorePc[s] \in {"handshake", "streaming"}

IsPrefix(a, b) == Len(a) <= Len(b) /\ a = SubSeq(b, 1, Len(a))

IsBlank(s) == \A i \in 1..Len(s) : s[i] \in WhiteSpace

\* text is s with the white space at both of its ends removed, and is not empty
IsTrimOf(text, s) ==
    \E i \in 1..Len(s) : \E j \in i..Len(s) :
        /\ text = SubSeq(s, i, j)
        /\ s[i] \notin WhiteSpace
        /\ s[j] \notin WhiteSpace
        /\ IsBlank(SubSeq(s, 1, i - 1))
        /\ IsBlank(SubSeq(s, j + 1, Len(s)))

\* C1: for every section, the first expansion issues exactly one generation
\* call, a section is marked loaded only after a call of its own completed,
\* and once a section is loaded no step (no later collapse or expansion)
\* issues a further generation call for it.
C1_LoadedSectionIsNeverRefetched ==
    /\ [](\A s \in Sections :
            /\ datasetContent[s] = "loaded" <=> explorePc[s] = "done"
            /\ datasetContent[s] = "loaded" => exploreCalls[s] >= 1)
    /\ [][\A s \in Sections :
            /\ (~expanded[s] /\ expanded'[s] /\ exploreCalls[s] = 0)
                  => exploreCalls'[s] = 1
            /\ datasetContent[s] = "loaded"
                  => /\ exploreCalls'[s] = exploreCalls[s]
                     /\ datasetContent'[s] = "loaded"]_vars

\* C1 witness: a section that was loaded by its single call and has been
\* collapsed afterwards, while the other section is expanded again after load.
C1_Witness ==
    \E s \in Sections : \E u \in Sections \ {s} :
        /\ datasetContent[s] = "loaded" /\ ~expanded[s] /\ exploreCalls[s] = 1
        /\ datasetContent[u] = "loaded" /\ expanded[u] /\ exploreCalls[u] = 1

\* C2: a generation call that fails (handshake or mid-stream) leaves the
\* section not loaded; the next click that expands the section issues exactly
\* one new call; and a call is only ever issued by an expanding click.
C2_FailureIsRetriedOnlyByReentry ==
    /\ [](\A s \in Sections :
            explorePc[s] = "failed" => datasetContent[s] # "loaded")
    /\ [][\A s \in Sections :
            /\ (explorePc[s] # "failed" /\ explorePc'[s] = "failed")
                  => /\ datasetContent'[s] = datasetContent[s]
                     /\ exploreCalls'[s] = exploreCalls[s]
            /\ (explorePc[s] = "failed" /\ ~expanded[s] /\ expanded'[s])
                  => exploreCalls'[s] = exploreCalls[s] + 1
            /\ exploreCalls'[s] # exploreCalls[s]
                  => /\ ~expanded[s] /\ expanded'[s]
                     /\ exploreCalls'[s] = exploreCalls[s] + 1]_vars

\* C2 witness: a second call is in flight for a section that is still not
\* loaded, so its first call failed (a retry by re-entry).
C2_Witness ==
    \E s \in Sections :
        /\ exploreCalls[s] = 2
        /\ explorePc[s] = "handshake"
        /\ expanded[s]
        /\ datasetContent[s] # "loaded"

\* C3: while a section's latest generation call is a failed one, its detail
\* surface holds the fixed error message and nothing else, not marked
\* streaming, its load state is not loaded, and its button is enabled.
C3_FailureShowsOnlyTheErrorMessage ==
    \A s \in Sections :
        explorePc[s] = "failed"
            => /\ detailsContainer[s].kind = "error"
               /\ detailsContainer[s].text = <<ErrorText>>
               /\ ~detailsContainer[s].streaming
               /\ datasetContent[s] # "loaded"
               /\ ~buttonDisabled[s]

\* C3 witness: a call that failed mid-stream, after fragments had been
\* written to the surface.
C3_Witness ==
    \E s \in Sections :
        /\ explorePc[s] = "failed"
        /\ Len(exploreFrags[s]) = 2
        /\ detailsContainer[s].text = <<ErrorText>>

\* C4: on each streaming surface (section detail, vision text, assistant
\* message) the text is, while the stream runs and when it has completed,
\* the concatenation in delivery order of the fragments delivered so far, and
\* each step of a running stream extends the text (the earlier text is a
\* prefix of the later one).
C4_TextIsConcatenationOfFragments ==
    /\ [](/\ \A s \in Sections :
               explorePc[s] \in {"streaming", "done"}
                   => /\ detailsContainer[s].kind = "p"
                      /\ detailsContainer[s].text = Concat(exploreFrags[s])
          /\ visionPc \in {"streaming", "done"}
                => visionText = Concat(visionFrags)
          /\ \A i \in 1..Len(replies) :
               replies[i].pc \in {"streaming", "done"}
                   => messages[replies[i].div].text = Concat(replies[i].frags))
    /\ [][/\ \A s \in Sections :
               (explorePc[s] = "streaming" /\ explorePc'[s] \in {"streaming", "done"})
                   => /\ IsPrefix(exploreFrags[s], exploreFrags'[s])
                      /\ IsPrefix(detailsContainer[s].text, detailsContainer'[s].text)
          /\ (visionPc = "streaming" /\ visionPc' \in {"streaming", "done"})
                => /\ IsPrefix(visionFrags, visionFrags')
                   /\ IsPrefix(visionText, visionText')
          /\ \A i \in 1..Len(replies) :
               (replies[i].pc = "streaming" /\ replies'[i].pc \in {"streaming", "done"})
                   => /\ IsPrefix(replies[i].frags, replies'[i].frags)
                      /\ IsPrefix(messages[replies[i].div].text,
                                  messages'[replies[i].div].text)]_vars

\* C4 witness: a section whose stream completed after two different
\* fragments, the second of several tokens, both on the surface in order.
C4_Witness ==
    \E s \in Sections :
        /\ explorePc[s] = "done"
        /\ exploreFrags[s] = << <<"a">>, <<"b", "c">> >>
        /\ detailsContainer[s].text = <<"a", "b", "c">>

\* C5: a submission whose input is not blank adds exactly a user message (the
\* trimmed input) followed by an assistant message; a submission whose input
\* is empty or white space only adds no message, sends nothing and creates no
\* session; and no other step adds or removes a message.
C5_OneUserAndOneAssistantMessagePerSubmission ==
    [][/\ submitEvents' # submitEvents
            => IF IsBlank(inputValue)
               THEN /\ messages' = messages
                    /\ sendCalls' = sendCalls
                    /\ chat' = chat
                    /\ chatsCreated' = chatsCreated
               ELSE /\ Len(messages') = Len(messages) + 2
                    /\ SubSeq(messages', 1, Len(messages)) = messages
                    /\ messages'[Len(messages) + 1].role = "user"
                    /\ IsTrimOf(messages'[Len(messages) + 1].text, inputValue)
                    /\ messages'[Len(messages) + 2].role = "assistant"
       /\ submitEvents' = submitEvents
            => /\ Len(messages') = Len(messages)
               /\ \A k \in 1..Len(messages) : messages'[k].role = messages[k].role]_vars

\* C5 witness: two submissions handled, one rejected (white space only, still
\* in the input) and one accepted whose reply has failed.
C5_Witness ==
    /\ submitEvents = 2
    /\ Len(messages) = 2
    /\ inputValue = <<"U+00A0", "\t">>
    /\ messages[1].text = <<"a", " ", "b">>
    /\ replies[1].pc = "failed"

\* C6: at most one chat session is ever created, and once the session handle
\* is set no step replaces or resets it.
C6_ChatSessionCreatedAtMostOnce ==
    /\ [](chatsCreated <= 1 /\ chat \in {NoChat, 1})
    /\ [][chat # NoChat => chat' = chat]_vars

\* C6 witness: a second submission was sent on the session of the first one
\* while the first reply is still streaming.
C6_Witness ==
    /\ Len(replies) = 2
    /\ replies[1].pc = "streaming"
    /\ replies[1].session # NoChat
    /\ replies[2].session = replies[1].session
    /\ replies[2].pc = "handshake"

\* C7 (as claimed): a placeholder whose image response carried no inline
\* image payload shows the fallback glyph, like one whose request failed.
C7_NoPayloadShowsFallbackGlyph ==
    \A k \in Placeholders :
        iconOutcome[k] \in {"noimage", "failed"}
            => placeholder[k].content = FallbackGlyph

\* C8: a failed request does not stop the loop: when the loop has ended every
\* placeholder has had its request, and if exactly one request failed and
\* every other one returned an image payload, all but one placeholder show an
\* image and one shows the fallback glyph.
C8_FailureDoesNotBlockSiblings ==
    iconIdx > NumPlaceholders
        => /\ \A k \in Placeholders : iconRequests[k] = 1 /\ iconOutcome[k] # "none"
           /\ ( /\ Cardinality({k \in Placeholders : iconOutcome[k] = "failed"}) = 1
                /\ \A k \in Placeholders : iconOutcome[k] \in {"failed", "image"} )
                => /\ Cardinality({k \in Placeholders : placeholder[k].content = "img"})
                        = NumPlaceholders - 1
                   /\ Cardinality({k \in Placeholders :
                                      placeholder[k].content = FallbackGlyph}) = 1
                   /\ \A k \in Placeholders :
                        iconOutcome[k] = "failed" <=> placeholder[k].content = FallbackGlyph

\* C8 witness: the loop has ended, the first request failed and all the later
\* ones returned an image.
C8_Witness ==
    /\ iconIdx > NumPlaceholders
    /\ iconOutcome[1] = "failed"
    /\ placeholder[1].content = FallbackGlyph
    /\ \A k \in Placeholders \ {1} :
          iconOutcome[k] = "image" /\ placeholder[k].content = "img"

\* C9: the vision handler issues at most one generation call; from the
\* trigger on the button is disabled, once the call has resolved (success or
\* failure) the button is hidden, and a disabled button is never enabled and
\* a hidden button never shown again.
C9_VisionTriggersAtMostOnce ==
    /\ [](/\ visionCalls <= 1
          /\ visionPc # "idle" => btnDisabled
          /\ visionPc \in {"done", "failed"} => btnDisplay = "none"
          /\ visionPc \in {"idle", "handshake", "streaming"} => btnDisplay # "none")
    /\ [][/\ btnDisabled => btnDisabled'
          /\ btnDisplay = "none" => btnDisplay' = "none"
          /\ visionCalls' # visionCalls => visionPc = "idle"]_vars

\* C9 witness: the call has failed mid-stream and the button is hidden and
\* still disabled.
C9_Witness ==
    /\ visionPc = "failed"
    /\ visionFrags # <<>>
    /\ btnDisplay = "none"
    /\ btnDisabled
    /\ visionCalls = 1

\* C10: a section has at most one generation call in flight; while one is in
\* flight its button is disabled, and no step expands or collapses the
\* section or issues another call for it until that call has ended.
C10_OneStreamInFlightPerSection ==
    /\ [](\A s \in Sections :
            /\ exploreInFlight[s] <= 1
            /\ InFlight(s) <=> exploreInFlight[s] = 1
            /\ InFlight(s) => buttonDisabled[s] /\ expanded[s])
    /\ [][\A s \in Sections :
            InFlight(s) => /\ expanded'[s] = expanded[s]
                           /\ exploreCalls'[s] = exploreCalls[s]]_vars

\* C10 witness: both sections have their call in flight at once, one
\* awaiting the handshake and one streaming.
C10_Witness ==
    \E s \in Sections : \E u \in Sections \ {s} :
        /\ explorePc[s] = "handshake" /\ buttonDisabled[s]
        /\ explorePc[u] = "streaming" /\ buttonDisabled[u]
        /\ exploreFrags[u] # <<>>

\* C11: when a chat send has failed (session creation, handshake or
\* mid-stream), the assistant message of that submission holds exactly the
\* fixed apology sentence and is not marked streaming, the message before it
\* is that submission's user message, and no step ever changes a user message.
C11_FailedSendShowsOnlyTheApology ==
    /\ [](\A i \in 1..Len(replies) :
            replies[i].pc = "failed"
                => /\ messages[replies[i].div].role = "assistant"
                   /\ messages[replies[i].div].text = <<Apology>>
                   /\ ~messages[replies[i].div].streaming
                   /\ messages[replies[i].div - 1].role = "user"
                   /\ messages[replies[i].div - 1].text # <<>>)
    /\ [][\A k \in 1..Len(messages) :
            messages[k].role = "user" => messages'[k] = messages[k]]_vars

\* C11 witness: a send that failed mid-stream, after two fragments had been
\* written into its assistant message, and another that failed at session
\* creation or handshake.
C11_Witness ==
    /\ Len(replies) = 2
    /\ replies[1].pc = "failed" /\ Len(replies[1].frags) = 2
    /\ replies[2].pc = "failed" /\ replies[2].frags = <<>>
    /\ messages[2].text = <<Apology>>
    /\ messages[1].text = <<"h", "i">>

\* C12: when the vision call has failed (handshake or mid-stream), the vision
\* text holds exactly the fixed vision fallback sentence, which is not the
\* section error text, and is not marked streaming.
C12_VisionFailureShowsTheFallbackSentence ==
    visionPc = "failed"
        => /\ visionText = <<VisionFallback>>
           /\ visionText # <<ErrorText>>
           /\ ~visionStreaming

\* C12 witness: the vision call failed after two fragments had been written.
C12_Witness ==
    /\ visionPc = "failed"
    /\ Len(visionFrags) = 2
    /\ visionText = <<VisionFallback>>

\* C13: a click that collapses a section leaves its detail surface, its load
\* state, its button's disabled state and its generation call untouched and
\* issues no call; it only clears the expansion, with the expand label and
\* aria-expanded "false".
C13_CollapseChangesOnlyExpansionAndLabel ==
    [][\A s \in Sections :
          (expanded[s] /\ ~expanded'[s])
              => /\ detailsContainer'[s] = detailsContainer[s]
                 /\ datasetContent'[s] = datasetContent[s]
                 /\ exploreCalls'[s] = exploreCalls[s]
                 /\ explorePc'[s] = explorePc[s]
                 /\ exploreFrags'[s] = exploreFrags[s]
                 /\ buttonDisabled'[s] = buttonDisabled[s]
                 /\ buttonText'[s] = ExploreLabel
                 /\ ariaExpanded'[s] = "false"]_vars

\* C13 witness: one section collapsed with its loaded text still in place,
\* the other collapsed with the error message of its failed call in place.
C13_Witness ==
    \E s \in Sections : \E u \in Sections \ {s} :
        /\ ~expanded[s] /\ datasetContent[s] = "loaded"
        /\ detailsContainer[s] = ParagraphDetails(<<"b", "c", "a">>, FALSE)
        /\ ~expanded[u] /\ explorePc[u] = "failed"
        /\ detailsContainer[u].text = <<ErrorText>>

\* C14: a surface is marked streaming only while its own operation is in
\* flight: a section paragraph only while its call is streaming, the vision
\* text only from the trigger to the end of its call, an assistant message
\* only from its submission to the end of its reply; once the stream has
\* ended (completed or failed) the surface is not marked.
C14_StreamingMarkOnlyWhileInFlight ==
    /\ \A s \in Sections :
          /\ detailsContainer[s].streaming => explorePc[s] = "streaming"
          /\ explorePc[s] \in {"done", "failed"} => ~detailsContainer[s].streaming
    /\ visionStreaming <=> visionPc \in {"handshake", "streaming"}
    /\ \A i \in 1..Len(replies) :
          messages[replies[i].div].streaming
              <=> replies[i].pc \in {"handshake", "streaming"}
    /\ \A k \in 1..Len(messages) :
          messages[k].streaming => \E i \in 1..Len(replies) : replies[i].div = k

\* C14 witness: the first reply has completed with text and lost its mark
\* while the second reply is still pending and marked.
C14_Witness ==
    /\ Len(replies) = 2
    /\ replies[1].pc = "done" /\ replies[1].frags # <<>>
    /\ ~messages[2].streaming
    /\ replies[2].pc = "handshake"
    /\ messages[4].streaming

\* Placeholders whose request has been issued and has not returned or failed.
IconsAwaited == {k \in Placeholders : iconRequests[k] > 0 /\ iconOutcome[k] = "none"}

\* C15: at most one image request is in flight, it is the request of the
\* placeholder the loop is at, and a placeholder's request has been issued
\* only if the requests of all placeholders before it have returned or failed.
C15_IconRequestsAreSequential ==
    /\ Cardinality(IconsAwaited) <= 1
    /\ iconInFlight = Cardinality(IconsAwaited)
    /\ IconsAwaited \subseteq {iconIdx}
    /\ \A k \in Placeholders :
          iconRequests[k] > 0
              => \A j \in 1..(k - 1) : iconRequests[j] > 0 /\ iconOutcome[j] # "none"

\* C15 witness: the second request is in flight after the first one failed,
\* and the third has not been issued.
C15_Witness ==
    /\ iconIdx = 2
    /\ iconOutcome[1] = "failed"
    /\ IconsAwaited = {2}
    /\ iconRequests[3] = 0

\* C16: a placeholder never has more than one request, and has had exactly
\* one when the loop has ended; its content changes only from its initial
\* pending content, to an image or to the fallback glyph, and once it is
\* resolved no step changes it.
C16_PlaceholderResolvedAtMostOnce ==
    /\ [](\A k \in Placeholders :
            /\ iconRequests[k] <= 1
            /\ iconIdx > NumPlaceholders => iconRequests[k] = 1
            /\ placeholder[k] # PendingIcon => iconOutcome[k] # "none")
    /\ [][\A k \in Placeholders :
            /\ placeholder[k] # PendingIcon => placeholder'[k] = placeholder[k]
            /\ placeholder'[k] # placeholder[k]
                  => /\ placeholder'[k].content \in {"img", FallbackGlyph}
                     /\ iconOutcome[k] = "none"
            /\ iconOutcome[k] # "none"
                  => /\ iconRequests'[k] = iconRequests[k]
                     /\ iconOutcome'[k] = iconOutcome[k]]_vars

\* C16 witness: the loop has ended with an image in the first placeholder
\* and the fallback glyph in the last, each after its single request.
C16_Witness ==
    /\ iconIdx > NumPlaceholders
    /\ placeholder[1].content = "img"
    /\ placeholder[1].src = DataUrlPrefix \o "Qg=="
    /\ placeholder[NumPlaceholders].content = FallbackGlyph
    /\ \A k \in Placeholders : iconRequests[k] = 1

SectionState(s) ==
    <<expanded[s], ariaExpanded[s], buttonText[s], buttonDisabled[s],
      datasetContent[s], detailsContainer[s], explorePc[s], exploreFrags[s],
      exploreCalls[s], exploreInFlight[s]>>

\* C17: every step changes the state of at most one controller (one section,
\* the icons, the vision region or the chat widget) and leaves every other
\* one as it was, whatever is pending or has failed elsewhere; and a control
\* is disabled or hidden only by its own controller's operation: a section
\* button only while that section's call is in flight, the vision button
\* only once the vision call has been triggered.
C17_ControllersAreIndependent ==
    /\ [](/\ \A s \in Sections : buttonDisabled[s] => InFlight(s)
          /\ btnDisabled => visionPc # "idle"
          /\ btnDisplay = "none" => visionPc \in {"done", "failed"})
    /\ [][Cardinality({s \in Sections : SectionState(s)' # SectionState(s)})
            + (IF iconVars' # iconVars THEN 1 ELSE 0)
            + (IF visionVars' # visionVars THEN 1 ELSE 0)
            + (IF chatVars' # chatVars THEN 1 ELSE 0) <= 1]_vars

\* C17 witness: three controllers are in the middle of their calls at once:
\* one section is streaming and has shown a fragment, the vision is
\* streaming, and a chat reply is pending; the other section's button is
\* enabled.
C17_Witness ==
    /\ visionPc = "streaming" /\ btnDisabled
    /\ Len(replies) = 1 /\ replies[1].pc = "handshake"
    /\ \E s \in Sections : \E u \in Sections \ {s} :
          /\ explorePc[s] = "streaming" /\ exploreFrags[s] # <<>>
          /\ buttonDisabled[s]
          /\ explorePc[u] = "idle" /\ ~buttonDisabled[u]

\* C18: the transcript alternates user message, assistant message, the i-th
\* accepted submission owning messages 2i-1 and 2i, also when replies
\* overlap; a submission only appends to the transcript; and a fragment
\* delivered by the stream of one submission is appended to the assistant
\* message of that submission and changes no other message.
C18_OverlappingRepliesAreNotMixed ==
    /\ [](/\ Len(messages) = 2 * Len(replies)
          /\ \A i \in 1..Len(replies) :
                /\ replies[i].div = 2 * i
                /\ messages[2 * i - 1].role = "user"
                /\ messages[2 * i].role = "assistant"
                /\ replies[i].pc \in {"streaming", "done"}
                      => messages[2 * i].text = Concat(replies[i].frags))
    /\ [][/\ SubSeq(messages', 1, Len(messages)) # messages
               => Len(messages') = Len(messages)
          /\ \A i \in 1..Len(replies) :
               replies'[i].frags # replies[i].frags
                   => /\ \E chunk \in Frags :
                           /\ replies'[i].frags = Append(replies[i].frags, chunk)
                           /\ messages'[2 * i].text = messages[2 * i].text \o chunk
                      /\ \A k \in 1..Len(messages) :
                           k # 2 * i => messages'[k] = messages[k]]_vars

\* C18 witness: two replies streaming at once, each assistant message holding
\* the fragments of its own stream, under the user messages in submission
\* order.
C18_Witness ==
    /\ Len(replies) = 2
    /\ replies[1].pc = "streaming" /\ replies[1].frags = << <<"b", "c">> >>
    /\ replies[2].pc = "streaming" /\ replies[2].frags = << <<"a">>, <<"a">> >>
    /\ messages[1].text = <<"a", " ", "b">>
    /\ messages[2].text = <<"b", "c">>
    /\ messages[3].text = <<"h", "i">>
    /\ messages[4].text = <<"a", "a">>

\* C19: in every state, for every section, the button shows the collapse
\* label and aria-expanded "true" exactly when the section is expanded, and
\* the expand label and aria-expanded "false" exactly when it is collapsed.
C19_LabelAndAriaFollowExpansion ==
    \A s \in Sections :
        /\ buttonText[s] \in {SealLabel, ExploreLabel}
        /\ buttonText[s] = SealLabel <=> expanded[s]
        /\ buttonText[s] = ExploreLabel <=> ~expanded[s]
        /\ ariaExpanded[s] = "true" <=> expanded[s]
        /\ ariaExpanded[s] = "false" <=> ~expanded[s]

\* C19 witness: after failed loads, one section is expanded with the collapse
\* label and the other collapsed with the expand label.
C19_Witness ==
    \E s \in Sections : \E u \in Sections \ {s} :
        /\ explorePc[s] = "failed" /\ expanded[s]
        /\ buttonText[s] = SealLabel /\ ariaExpanded[s] = "true"
        /\ explorePc[u] = "failed" /\ ~expanded[u]
        /\ buttonText[u] = ExploreLabel /\ ariaExpanded[u] = "false"

\* C20: a section's button is disabled exactly while the section's call is
\* in flight, and the step that ends a call (completion or failure) leaves
\* the button enabled.
C20_DisabledExactlyWhileInFlight ==
    /\ [](\A s \in Sections : buttonDisabled[s] <=> exploreInFlight[s] > 0)
    /\ [][\A s \in Sections :
            exploreInFlight'[s] < exploreInFlight[s] => ~buttonDisabled'[s]]_vars

\* C20 witness: one section's call has completed and its button is enabled
\* again, while the other section's second call is in flight with its button
\* disabled.
C20_Witness ==
    \E s \in Sections : \E u \in Sections \ {s} :
        /\ explorePc[s] = "done" /\ ~buttonDisabled[s] /\ exploreFrags[s] # <<>>
        /\ exploreCalls[u] = 2 /\ explorePc[u] = "streaming" /\ buttonDisabled[u]
====
